---- MODULE Spec2Model ----
(***************************************************************************)
(* Local-RAG-Assistant: the pickle-on-disk parent store (SimpleDiskStore), *)
(* the librarian that ingests PDFs through a parent/child retriever        *)
(* (PolicyLibrarian), and the question-answering agent built on it         *)
(* (BankComplianceAgent).                                                  *)
(*                                                                         *)
(* Conventions.  A key is a sequence of character codes.  A Document is a  *)
(* record [page_content, metadata].  The directory parent_docs_store is    *)
(* the function `files` from paths to byte strings; a path exists iff it   *)
(* is in DOMAIN files.  A function that can raise returns a record with a  *)
(* field `raised`.                                                         *)
(***************************************************************************)
EXTENDS Integers, Sequences, FiniteSets, TLC

VARIABLES
    files,      \* parent_docs_store: path -> bytes of the file
    index,      \* the vector index: sequence of child chunks, in insertion order
    nextId,     \* number of identifiers uuid4 has handed out
    lastOp,     \* the last call made on the store / librarian and what it returned
    kv,         \* history: key -> Document last written whole and not deleted since
    assigned,   \* history: identifier -> parent chunk it was generated for
    removed,    \* history: parent identifiers passed to mdelete
    clean,      \* history: TRUE while every add_documents call so far completed
    folder,     \* data_docs: pdf name -> page lengths
    pc,         \* ingest_folder's position
    pdf_files,  \* ingest_folder: glob's result
    cur,        \* ingest_folder: index of the pdf being processed
    docs,       \* ingest_folder: pages loaded from the current pdf
    i,          \* ingest_folder: batch offset
    calls,      \* history: add_documents calls of the current run
    report,     \* what ingest_folder printed for each pdf
    messages    \* st.session_state.messages

vars == <<files, index, nextId, lastOp, kv, assigned, removed, clean, folder,
          pc, pdf_files, cur, docs, i, calls, report, messages>>

storeVars == <<files, lastOp, kv, removed>>
indexVars == <<index, nextId, assigned, clean>>
ingestVars == <<folder, pc, pdf_files, cur, docs, i, calls, report>>

\* Python's None, where a Document may stand
None == [none |-> TRUE]

\* ------------------------------------------------------------------ bounds
MaxPairs == 2       \* longest key_value_pairs handed to mset
MaxKeys == 2        \* longest keys handed to mget / mdelete
MaxHits == 4        \* most child hits one vector search returns
MaxTurns == 2       \* questions the chat history holds before it is cleared
ExtraPages == 20    \* pages of the longest pdf past two full batches

\* ------------------------------------------------------------ small helpers
Min(a, b) == IF a < b THEN a ELSE b

Range(s) == {s[n] : n \in DOMAIN s}

SeqsUpTo(S, n) == UNION {[1..m -> S] : m \in 0..n}

\* f with path p removed
Without(f, p) == [q \in DOMAIN f \ {p} |-> f[q]]

\* f with p bound to v, p added when absent
With(f, p, v) == (p :> v) @@ f

StartsWith(key, prefix) ==
    /\ Len(prefix) <= Len(key)
    /\ SubSeq(key, 1, Len(prefix)) = prefix

\* ------------------------------------------------- SimpleDiskStore._get_path
\* The digest space of hashlib.md5, scaled to what TLC's integers hold.
DigestMod == 1009

RECURSIVE Md5Fold(_, _)
Md5Fold(key, h) ==
    IF key = <<>> THEN h
    ELSE Md5Fold(Tail(key), (h * 31 + Head(key)) % DigestMod)

\* A digest of the first character only
Md5Bad(key) == IF key = <<>> THEN 7 ELSE Head(key)

\* hashlib.md5(key.encode()).hexdigest(): deterministic, not the key itself
Md5(key) == Md5Fold(key, 7)

\* A path that does not depend on the key
GetPathNoDigest(key) == <<"parent_docs_store", 0, "pkl">>

\* os.path.join(self.folder_path, f"{safe_key}.pkl")
GetPath(key) == <<"parent_docs_store", Md5(key), "pkl">>

\* ------------------------------------------------------------------ pickle
\* pickle.dump(doc, f): the bytes written for a Document
PickleDump(doc) == <<"PROTO", doc.page_content, doc.metadata, "STOP">>

\* pickle.load(f): raises on anything that is not a whole pickle
PickleLoad(bytes) ==
    IF Len(bytes) = 4 /\ bytes[1] = "PROTO" /\ bytes[4] = "STOP"
    THEN [raised |-> FALSE,
          doc |-> [page_content |-> bytes[2], metadata |-> bytes[3]]]
    ELSE [raised |-> TRUE]

\* -------------------------------------------------------- SimpleDiskStore
\* A write fault: pair number `at` fails; cut = -1 when open(path, "wb") fails
\* (the file is untouched), cut = n >= 0 when pickle.dump fails after n bytes
\* (the file is left truncated to them).  at = 0: no fault.
NoFault == [at |-> 0, cut |-> 0]

OpenFails == 0 - 1

FaultsFor(n) == {NoFault} \cup [at : 1..n, cut : {OpenFails, 1}]

\* The loops over a batch are written as "do lo..mid, then mid+1..hi": the same
\* turns in the same order, at a recursion depth TLC's stack holds.
Mid(lo, hi) == (lo + hi) \div 2

\* one turn of the loop of mset: open(path, "wb"), pickle.dump(doc, f)
MsetOne(f, pair, faulty, cut) ==
    LET path == GetPath(pair[1])
    IN IF ~faulty THEN [files |-> With(f, path, PickleDump(pair[2])), raised |-> FALSE]
       ELSE IF cut = OpenFails THEN [files |-> f, raised |-> TRUE]
       ELSE [files |-> With(f, path, SubSeq(PickleDump(pair[2]), 1, cut)), raised |-> TRUE]

\* turns lo..hi of the loop of mset; a turn that raises ends it
RECURSIVE MsetRange(_, _, _, _, _)
MsetRange(f, pairs, lo, hi, fault) ==
    IF lo > hi THEN [files |-> f, raised |-> FALSE]
    ELSE IF lo = hi THEN MsetOne(f, pairs[lo], fault.at = lo, fault.cut)
    ELSE LET first == MsetRange(f, pairs, lo, Mid(lo, hi), fault)
         IN IF first.raised THEN first
            ELSE MsetRange(first.files, pairs, Mid(lo, hi) + 1, hi, fault)

\* A mset that swallows the I/O error and goes on with the next pair
RECURSIVE MsetSwallowRange(_, _, _, _, _)
MsetSwallowRange(f, pairs, lo, hi, fault) ==
    IF lo > hi THEN f
    ELSE IF lo = hi THEN MsetOne(f, pairs[lo], fault.at = lo, fault.cut).files
    ELSE MsetSwallowRange(MsetSwallowRange(f, pairs, lo, Mid(lo, hi), fault),
                          pairs, Mid(lo, hi) + 1, hi, fault)

MsetSwallow(f, pairs, fault) ==
    [files |-> MsetSwallowRange(f, pairs, 1, Len(pairs), fault), raised |-> FALSE]

mset(f, pairs, fault) == MsetRange(f, pairs, 1, Len(pairs), fault)

\* unreadable: the keys whose file cannot be opened or read at this call
RECURSIVE MgetFrom(_, _, _, _, _)
MgetFrom(f, keys, n, unreadable, results) ==
    IF n > Len(keys) THEN results
    ELSE LET key == keys[n]
             path == GetPath(key)
         IN IF path \in DOMAIN f
            THEN IF key \in unreadable \/ PickleLoad(f[path]).raised
                 THEN MgetFrom(f, keys, n + 1, unreadable, Append(results, None))
                 ELSE MgetFrom(f, keys, n + 1, unreadable,
                               Append(results, PickleLoad(f[path]).doc))
            ELSE MgetFrom(f, keys, n + 1, unreadable, Append(results, None))

\* A mget that leaves missing keys out of its result
RECURSIVE MgetSkipFrom(_, _, _, _, _)
MgetSkipFrom(f, keys, n, unreadable, results) ==
    IF n > Len(keys) THEN results
    ELSE LET path == GetPath(keys[n])
         IN IF path \in DOMAIN f /\ keys[n] \notin unreadable /\ ~PickleLoad(f[path]).raised
            THEN MgetSkipFrom(f, keys, n + 1, unreadable,
                              Append(results, PickleLoad(f[path]).doc))
            ELSE MgetSkipFrom(f, keys, n + 1, unreadable, results)

MgetSkip(f, keys, unreadable) == MgetSkipFrom(f, keys, 1, unreadable, <<>>)

\* A mget that answers in reverse order
MgetReversed(f, keys, unreadable) ==
    LET r == MgetFrom(f, keys, 1, unreadable, <<>>)
    IN [n \in 1..Len(r) |-> r[Len(r) + 1 - n]]

\* mget(keys); unreadable: the keys whose file cannot be opened or read now
mget(f, keys, unreadable) == MgetFrom(f, keys, 1, unreadable, <<>>)

RECURSIVE MdeleteFrom(_, _, _)
MdeleteFrom(f, keys, n) ==
    IF n > Len(keys) THEN f
    ELSE LET path == GetPath(keys[n])
         IN IF path \in DOMAIN f
            THEN MdeleteFrom(Without(f, path), keys, n + 1)
            ELSE MdeleteFrom(f, keys, n + 1)

\* A mdelete that removes nothing
MdeleteNoop(f, keys) == f

mdelete(f, keys) == MdeleteFrom(f, keys, 1)

\* yield from []
yield_keys(f, prefix) == <<>>

\* ------------------------------------------------- history of the store
\* What the mapping holds after key_value_pairs is written under `fault`,
\* stated on keys: a whole write binds the key, a truncated one loses it.
KvAfterMset(m, pairs, fault) ==
    LET whole == IF fault.at \in DOMAIN pairs THEN 1..(fault.at - 1) ELSE DOMAIN pairs
        last(k) == CHOOSE n \in whole : pairs[n][1] = k /\ \A o \in whole : pairs[o][1] = k => o <= n
        lost == IF fault.at \in DOMAIN pairs /\ fault.cut # OpenFails
                THEN {pairs[fault.at][1]} ELSE {}
    IN [k \in (DOMAIN m \cup {pairs[n][1] : n \in whole}) \ lost |->
           IF k \in {pairs[n][1] : n \in whole} THEN pairs[last(k)][2] ELSE m[k]]

KvAfterMdelete(m, keys) == [k \in DOMAIN m \ Range(keys) |-> m[k]]

\* ------------------------------------------------------- store-level inputs
\* the keys callers write: "a", "ab"
WriteKeys == {<<1>>, <<1, 2>>}

\* the keys callers ask for: those, and "b", which nobody ever wrote
StoreKeys == WriteKeys \cup {<<2>>}

\* Optional[str]: no prefix, or "a", "ab", "b"
NoPrefix == [given |-> FALSE, value |-> <<>>]

Prefixes == {NoPrefix} \cup [given : {TRUE}, value : {<<1>>, <<1, 2>>, <<2>>}]

StoreDocs ==
    { [page_content |-> "rule 1.3.2", metadata |-> [source_file |-> "a.pdf", page |-> 0]],
      [page_content |-> "rule 7", metadata |-> [source_file |-> "b.pdf"]] }

\* ------------------------------------------------------- store-level calls
MsetCall ==
    \E pairs \in SeqsUpTo(WriteKeys \X StoreDocs, MaxPairs) :
      \E fault \in FaultsFor(Len(pairs)) :
        LET r == mset(files, pairs, fault)
        IN /\ files' = r.files
           /\ lastOp' = [op |-> "mset", raised |-> r.raised]
           /\ kv' = KvAfterMset(kv, pairs, fault)
           /\ UNCHANGED <<removed, indexVars, ingestVars, messages>>

MgetCall ==
    \E keys \in SeqsUpTo(StoreKeys, MaxKeys) :
      \E unreadable \in {{}} \cup {{k} : k \in Range(keys)} :
        /\ lastOp' = [op |-> "mget", keys |-> keys, unreadable |-> unreadable,
                      raised |-> FALSE, result |-> mget(files, keys, unreadable)]
        /\ UNCHANGED <<files, kv, removed, indexVars, ingestVars, messages>>

Mdelete(K) ==
    \E keys \in SeqsUpTo(K, MaxKeys) :
        /\ files' = mdelete(files, keys)
        /\ lastOp' = [op |-> "mdelete", keys |-> keys, raised |-> FALSE]
        /\ kv' = KvAfterMdelete(kv, keys)
        /\ removed' = removed \cup (Range(keys) \cap DOMAIN assigned)
        /\ UNCHANGED <<indexVars, ingestVars, messages>>

MdeleteCall == Mdelete(StoreKeys)

YieldKeysCall ==
    \E prefix \in Prefixes :
        /\ lastOp' = [op |-> "yield_keys", prefix |-> prefix, raised |-> FALSE,
                      result |-> yield_keys(files, prefix)]
        /\ UNCHANGED <<files, kv, removed, indexVars, ingestVars, messages>>

\* ------------------------------------------------ PolicyLibrarian.__init__
ChildSize == 100
ChildOverlap == 20
ParentSize == 3000
ParentOverlap == 300

\* ---------------------------------------------------------- the splitters
\* A text is a run of characters of one page: [of, from, to).
\* RecursiveCharacterTextSplitter.split_text, by size alone: windows of at
\* most `size` characters, each starting `overlap` before the end of the last.
SplitText(text, size, overlap) ==
    LET length == text.to - text.from
        stride == size - overlap
        count == IF length <= 0 THEN 0
                 ELSE IF length <= size THEN 1
                 ELSE 1 + (length - size + stride - 1) \div stride
    IN [n \in 1..count |->
           [text EXCEPT !.from = text.from + (n - 1) * stride,
                        !.to = Min(text.to, text.from + (n - 1) * stride + size)]]

\* split_documents: every chunk keeps the metadata of the document it is cut from
SplitOne(d, size, overlap) ==
    LET chunks == SplitText(d.page_content, size, overlap)
    IN [n \in 1..Len(chunks) |-> [page_content |-> chunks[n], metadata |-> d.metadata]]

RECURSIVE SplitRange(_, _, _, _, _)
SplitRange(documents, lo, hi, size, overlap) ==
    IF lo > hi THEN <<>>
    ELSE IF lo = hi THEN SplitOne(documents[lo], size, overlap)
    ELSE SplitRange(documents, lo, Mid(lo, hi), size, overlap)
         \o SplitRange(documents, Mid(lo, hi) + 1, hi, size, overlap)

SplitDocuments(documents, size, overlap) ==
    SplitRange(documents, 1, Len(documents), size, overlap)

\* ------------------------------------------------- ParentDocumentRetriever
\* str(uuid.uuid4()): the n-th identifier handed out
Uuid(n) == <<3, n>>

\* the children of a parent, each carrying its parent's identifier
ChildrenOfOne(parent, id) ==
    LET sub == SplitDocuments(<<parent>>, ChildSize, ChildOverlap)
    IN [m \in 1..Len(sub) |->
           [sub[m] EXCEPT !.metadata = With(sub[m].metadata, "doc_id", id)]]

RECURSIVE ChildrenRange(_, _, _, _)
ChildrenRange(parents, ids, lo, hi) ==
    IF lo > hi THEN <<>>
    ELSE IF lo = hi THEN ChildrenOfOne(parents[lo], ids[lo])
    ELSE ChildrenRange(parents, ids, lo, Mid(lo, hi))
         \o ChildrenRange(parents, ids, Mid(lo, hi) + 1, hi)

\* A fault of one add_documents call: a write fault of the store, or the
\* vector index refusing the children.
AddFaultsFor(n) ==
    [store : FaultsFor(n), index : {FALSE}] \cup {[store |-> NoFault, index |-> TRUE]}

\* add_documents(documents, ids=None): split into parents, a fresh identifier
\* per parent, one mset of the parents, then the children into the index.
AddDocuments(f, idx, issued, documents, fault) ==
    LET parents == SplitDocuments(documents, ParentSize, ParentOverlap)
        ids == [n \in 1..Len(parents) |-> Uuid(issued + n)]
        full_docs == [n \in 1..Len(parents) |-> <<ids[n], parents[n]>>]
        w == mset(f, full_docs, fault.store)
        failed == w.raised \/ fault.index
    IN [raised |-> failed,
        files |-> w.files,
        index |-> IF failed THEN idx ELSE idx \o ChildrenRange(parents, ids, 1, Len(parents)),
        nextId |-> issued + Len(parents),
        full_docs |-> full_docs]

\* the identifiers of the hits, each once, in the order first met
RECURSIVE DedupFrom(_, _, _)
DedupFrom(sub_docs, n, ids) ==
    IF n > Len(sub_docs) THEN ids
    ELSE LET id == sub_docs[n].metadata.doc_id
         IN IF id \in Range(ids)
            THEN DedupFrom(sub_docs, n + 1, ids)
            ELSE DedupFrom(sub_docs, n + 1, Append(ids, id))

\* retriever.invoke(query), given the ranked child hits of the vector search
Retrieve(f, sub_docs) ==
    LET ids == DedupFrom(sub_docs, 1, <<>>)
        found == mget(f, ids, {})
    IN SelectSeq(found, LAMBDA d : d # None)

\* ------------------------------------------------ PolicyLibrarian.search
\* the vector search: some children of the index, none twice, best first
HitSeqs(idx) ==
    {h \in SeqsUpTo(DOMAIN idx, Min(MaxHits, Len(idx))) :
        \A a, b \in DOMAIN h : a # b => h[a] # h[b]}

search(f, idx, h) == Retrieve(f, [n \in DOMAIN h |-> idx[h[n]]])

HitIds(idx, h) == [n \in DOMAIN h |-> idx[h[n]].metadata.doc_id]

IssuedIds == {Uuid(n) : n \in 1..nextId}

Search ==
    \E h \in HitSeqs(index) :
        /\ lastOp' = [op |-> "search", hits |-> HitIds(index, h), raised |-> FALSE,
                      result |-> search(files, index, h)]
        /\ UNCHANGED <<files, kv, removed, indexVars, ingestVars, messages>>

\* mdelete on the librarian's store, of identifiers it has handed out
DeleteParents == IssuedIds # {} /\ Mdelete(IssuedIds)

\* -------------------------------------------- PolicyLibrarian.ingest_folder
BATCH_SIZE == 50

\* loader.load(): one Document per page
LoadPages(pdf, lengths) ==
    [n \in 1..Len(lengths) |->
        [page_content |-> [of |-> <<pdf, n>>, from |-> 0, to |-> lengths[n]],
         metadata |-> [source |-> pdf, page |-> n - 1]]]

\* doc.metadata["source_file"] = os.path.basename(pdf_path)
AddSourceFile(pages, pdf) ==
    [n \in 1..Len(pages) |->
        [pages[n] EXCEPT !.metadata = With(pages[n].metadata, "source_file", pdf)]]

\* A slice that runs one page into the next batch
SliceOverlap(s, lo, hi) == SubSeq(s, lo + 1, Min(hi + 1, Len(s)))

\* docs[i : i + BATCH_SIZE]
Slice(s, lo, hi) == SubSeq(s, lo + 1, Min(hi, Len(s)))

Orderings(S) == {o \in [1..Cardinality(S) -> S] : Range(o) = S}

\* for pdf_path in pdf_files: the step to the next pdf, or out of the loop
NextPdf ==
    /\ cur' = cur + 1
    /\ pc' = IF cur + 1 > Len(pdf_files) THEN "complete" ELSE "load"
    /\ docs' = <<>>
    /\ i' = 0

\* A handler that gives the whole run up
ExceptAbort(pdf, e) ==
    /\ report' = With(report, pdf, <<"Failed to load", e>>)
    /\ pc' = "complete"
    /\ cur' = cur
    /\ docs' = <<>>
    /\ i' = 0

\* except Exception as e: print(f"Failed to load {pdf_path}: {e}"), and on to
\* the next pdf
Except(pdf, e) ==
    /\ report' = With(report, pdf, <<"Failed to load", e>>)
    /\ NextPdf

\* glob.glob(...), and the return when it finds nothing
Scan ==
    /\ pc = "idle"
    /\ \E found \in Orderings(DOMAIN folder) :
        /\ pdf_files' = found
        /\ IF found = <<>>
           THEN pc' = "returned" /\ cur' = cur
           ELSE pc' = "load" /\ cur' = 1
    /\ UNCHANGED <<storeVars, indexVars, folder, docs, i, calls, report, messages>>

\* loader.load() and the metadata loop; a load that raises lands in the except
Load ==
    /\ pc = "load"
    /\ LET pdf == pdf_files[cur]
       IN \E loads \in BOOLEAN :
            IF loads
            THEN /\ docs' = AddSourceFile(LoadPages(pdf, folder[pdf]), pdf)
                 /\ i' = 0
                 /\ pc' = "batch"
                 /\ UNCHANGED <<cur, report>>
            ELSE Except(pdf, "PdfReadError")
    /\ UNCHANGED <<storeVars, indexVars, folder, pdf_files, calls, messages>>

\* one turn of for i in range(0, total_pages, BATCH_SIZE); an add_documents
\* that raises lands in the except
Batch ==
    /\ pc = "batch"
    /\ i < Len(docs)
    /\ LET pdf == pdf_files[cur]
           batch == Slice(docs, i, i + BATCH_SIZE)
           nparents == Len(SplitDocuments(batch, ParentSize, ParentOverlap))
       IN \E fault \in AddFaultsFor(nparents) :
            LET r == AddDocuments(files, index, nextId, batch, fault)
            IN /\ files' = r.files
               /\ index' = r.index
               /\ nextId' = r.nextId
               /\ kv' = KvAfterMset(kv, r.full_docs, fault.store)
               /\ assigned' = [k \in DOMAIN assigned \cup {p[1] : p \in Range(r.full_docs)} |->
                                 IF k \in DOMAIN assigned THEN assigned[k]
                                 ELSE (CHOOSE p \in Range(r.full_docs) : p[1] = k)[2]]
               /\ clean' = (clean /\ ~r.raised)
               /\ calls' = Append(calls, [pdf |-> pdf, from |-> i, batch |-> batch,
                                          ids |-> {p[1] : p \in Range(r.full_docs)},
                                          fault |-> fault, raised |-> r.raised])
               /\ lastOp' = [op |-> "add_documents", raised |-> r.raised]
               /\ IF r.raised
                  THEN Except(pdf, IF fault.index THEN "ChromaError" ELSE "OSError")
                  ELSE /\ i' = i + BATCH_SIZE
                       /\ UNCHANGED <<pc, cur, docs, report>>
    /\ UNCHANGED <<removed, folder, pdf_files, messages>>

\* the loop over the batches ends: "Successfully Indexed"
Indexed ==
    /\ pc = "batch"
    /\ i >= Len(docs)
    /\ report' = With(report, pdf_files[cur], <<"Successfully Indexed">>)
    /\ NextPdf
    /\ UNCHANGED <<storeVars, indexVars, folder, pdf_files, calls, messages>>

\* "Ingestion Complete! Database is ready."
Complete ==
    /\ pc = "complete"
    /\ pc' = "done"
    /\ UNCHANGED <<storeVars, indexVars, folder, pdf_files, cur, docs, i, calls,
                   report, messages>>

\* ---------------------------------------------------- BankComplianceAgent
\* A message is a sequence of tokens: words, and the white space between them.
WhiteSpace == {" ", "\n"}

\* the cross mark (U+274C) both failure messages open with
CrossMark == "[cross mark]"

NoDocsMessage ==
    <<CrossMark, " ",
      "I searched the database but could not find any relevant documents regarding this topic.">>

OllamaErrorMessage(e) ==
    <<CrossMark, " ",
      "Ollama Error: Is Ollama running? Run 'ollama serve' in a separate terminal. Details:",
      " ", e>>

\* what the model may answer
LlmAnswers ==
    { <<"Rule", " ", "1.3.2", "\n", "applies.">>,
      <<"I cannot find this information in the official policy documents.">> }

\* the outcomes of chain.invoke: an answer, or an exception
LlmOutcomes ==
    [ok : {TRUE}, text : LlmAnswers] \cup [ok : {FALSE}, text : {<<"ConnectionError">>}]

Queries == {<<"routing", " ", "rules?">>}

\* doc.metadata.get(name, default)
MetadataGet(metadata, name, default) ==
    IF name \in DOMAIN metadata THEN metadata[name] ELSE default

format_docs(retrieved) ==
    [n \in 1..Len(retrieved) |->
        [source |-> MetadataGet(retrieved[n].metadata, "source_file", "Unknown"),
         page |-> MetadataGet(retrieved[n].metadata, "page", "N/A"),
         content |-> [text |-> retrieved[n].page_content, newlines |-> " "]]]

\* An ask that sends an empty context to the model
AskNoEmptyCheck(f, idx, query, h, searchRaises, llm) ==
    IF searchRaises
    THEN [raised |-> TRUE, response |-> <<"ChromaError">>, llmCalled |-> FALSE,
          retrieved |-> <<>>]
    ELSE LET retrieved == search(f, idx, h)
         IN [raised |-> FALSE,
             response |-> IF llm.ok THEN llm.text ELSE OllamaErrorMessage(llm.text[1]),
             llmCalled |-> TRUE,
             llmFailed |-> ~llm.ok,
             prompt |-> [context |-> format_docs(retrieved), question |-> query],
             retrieved |-> retrieved]

\* ask(query): h the hits of the vector search, searchRaises when the search
\* itself fails, llm the outcome of the model call if it is made
ask(f, idx, query, h, searchRaises, llm) ==
    IF searchRaises
    THEN [raised |-> TRUE, response |-> <<"ChromaError">>, llmCalled |-> FALSE,
          retrieved |-> <<>>]
    ELSE LET retrieved == search(f, idx, h)
         IN IF retrieved = <<>>
            THEN [raised |-> FALSE, response |-> NoDocsMessage, llmCalled |-> FALSE,
                  retrieved |-> retrieved]
            ELSE LET context_text == format_docs(retrieved)
                 IN [raised |-> FALSE,
                     response |-> IF llm.ok THEN llm.text ELSE OllamaErrorMessage(llm.text[1]),
                     llmCalled |-> TRUE,
                     llmFailed |-> ~llm.ok,
                     prompt |-> [context |-> context_text, question |-> query],
                     retrieved |-> retrieved]

\* agent.ask(user_query)
Ask ==
    \E query \in Queries, h \in HitSeqs(index), searchRaises \in BOOLEAN, llm \in LlmOutcomes :
        /\ lastOp' = [op |-> "ask", query |-> query, hits |-> HitIds(index, h),
                      searchRaises |-> searchRaises, llm |-> llm,
                      out |-> ask(files, index, query, h, searchRaises, llm)]
        /\ UNCHANGED <<files, kv, removed, indexVars, ingestVars, messages>>

\* ------------------------------------------------------------- the chat UI
\* for chunk in raw_response.split(): full_response += chunk + " "
RECURSIVE Typed(_)
Typed(raw) ==
    IF raw = <<>> THEN <<>>
    ELSE IF Head(raw) \in WhiteSpace THEN Typed(Tail(raw))
    ELSE <<Head(raw), " ">> \o Typed(Tail(raw))

\* the handler of st.chat_input
ChatInput ==
    /\ Len(messages) < 2 * MaxTurns
    /\ \E prompt \in Queries, h \in HitSeqs(index), searchRaises \in BOOLEAN,
          llm \in LlmOutcomes :
        LET out == ask(files, index, prompt, h, searchRaises, llm)
            full_response ==
                IF out.raised THEN <<"Error:", " ">> \o out.response
                ELSE IF CrossMark \in Range(out.response) THEN out.response
                ELSE Typed(out.response)
        IN /\ messages' = messages \o <<[role |-> "user", content |-> prompt],
                                        [role |-> "assistant", content |-> full_response]>>
           /\ lastOp' = [op |-> "chat", query |-> prompt, hits |-> HitIds(index, h),
                         searchRaises |-> searchRaises, llm |-> llm, out |-> out]
    /\ UNCHANGED <<files, kv, removed, indexVars, ingestVars>>

\* "Clear Chat History"
ClearChat ==
    /\ messages' = <<>>
    /\ lastOp' = [op |-> "clear", raised |-> FALSE]
    /\ UNCHANGED <<files, kv, removed, indexVars, ingestVars>>

\* ------------------------------------------------------------------- Init
\* SimpleDiskStore.__init__ on a fresh directory, PolicyLibrarian.__init__ on a
\* fresh collection, an empty chat.
InitCommon ==
    /\ files = <<>>
    /\ index = <<>>
    /\ nextId = 0
    /\ lastOp = [op |-> "init", raised |-> FALSE]
    /\ kv = <<>>
    /\ assigned = <<>>
    /\ removed = {}
    /\ clean = TRUE
    /\ pc = "idle"
    /\ pdf_files = <<>>
    /\ cur = 0
    /\ docs = <<>>
    /\ i = 0
    /\ calls = <<>>
    /\ report = <<>>
    /\ messages = <<>>

InitStore == InitCommon /\ folder = <<>>

\* data_docs: a.pdf of two pages (the first long enough for two children),
\* b.pdf of one, or nothing at all
Folders ==
    { <<>>,
      [f \in {"a.pdf"} |-> <<180, 90>>],
      [f \in {"a.pdf", "b.pdf"} |-> IF f = "a.pdf" THEN <<180, 90>> ELSE <<90>>] }

Init == InitCommon /\ folder \in Folders

Next == Scan \/ Load \/ Batch \/ Indexed \/ Complete \/ Search \/ DeleteParents

Spec == Init /\ [][Next]_vars

\* The agent's process opens the database a faultless ingest_folder of a.pdf
\* left on disk.
AgentPdf == "a.pdf"

AgentDb ==
    AddDocuments(<<>>, <<>>, 0, AddSourceFile(LoadPages(AgentPdf, <<180, 90>>), AgentPdf),
                 [store |-> NoFault, index |-> FALSE])

InitAgent ==
    /\ files = AgentDb.files
    /\ index = AgentDb.index
    /\ nextId = AgentDb.nextId
    /\ lastOp = [op |-> "init", raised |-> FALSE]
    /\ kv = KvAfterMset(<<>>, AgentDb.full_docs, NoFault)
    /\ assigned = KvAfterMset(<<>>, AgentDb.full_docs, NoFault)
    /\ removed = {}
    /\ clean = TRUE
    /\ folder = [f \in {AgentPdf} |-> <<180, 90>>]
    /\ pc = "done"
    /\ pdf_files = <<AgentPdf>>
    /\ cur = 2
    /\ docs = <<>>
    /\ i = 0
    /\ calls = <<>>
    /\ report = [f \in {AgentPdf} |-> <<"Successfully Indexed">>]
    /\ messages = <<>>

NextAgent == Ask \/ ChatInput \/ ClearChat \/ DeleteParents

SpecAgent == InitAgent /\ [][NextAgent]_vars

\* One long pdf: its first page splits into two parents, the others into one.
\* The page counts sit on both sides of every multiple of BATCH_SIZE.
PageCounts ==
    {0, 1, BATCH_SIZE - 1, BATCH_SIZE, BATCH_SIZE + 1, 2 * BATCH_SIZE,
     2 * BATCH_SIZE + ExtraPages}

LongPdf(n) ==
    [f \in {"long.pdf"} |-> [p \in 1..n |-> IF p = 1 THEN ParentSize + ChildSize ELSE 90]]

InitBatch == InitCommon /\ \E n \in PageCounts : folder = LongPdf(n)

NextBatch == Scan \/ Load \/ Batch \/ Indexed \/ Complete

SpecBatch == InitBatch /\ [][NextBatch]_vars

NextStore == MsetCall \/ MgetCall \/ MdeleteCall \/ YieldKeysCall

SpecStore == InitStore /\ [][NextStore]_vars

\* ================================================================ the claims

\* ---- helpers of the statements (not of the program)
\* the place where x is first met in s
FirstIndex(s, x) == CHOOSE n \in DOMAIN s : s[n] = x /\ \A m \in 1..(n - 1) : s[m] # x

\* the members of S, a subset of the elements of s, each once, by first place in s
RankedOnce(s, S) ==
    [n \in 1..Cardinality(S) |->
        CHOOSE x \in S : Cardinality({y \in S : FirstIndex(s, y) < FirstIndex(s, x)}) = n - 1]

\* the keys whose entry is whole on disk, by the history of the calls
Intact == DOMAIN kv

KeyA == <<1>>
KeyAB == <<1, 2>>

\* C4: a Document put under an identifier and neither overwritten nor deleted
\* since comes back from get_many([id]) as one Document, equal to it in text
\* and in metadata.
C4_RoundTrip ==
    /\ \A k \in Intact :
        LET got == mget(files, <<k>>, {})
        IN /\ Len(got) = 1
           /\ got[1] # None
           /\ got[1].page_content = kv[k].page_content
           /\ got[1].metadata = kv[k].metadata
    /\ lastOp.op = "mget" =>
        \A n \in DOMAIN lastOp.keys :
            (lastOp.keys[n] \in Intact /\ lastOp.keys[n] \notin lastOp.unreadable)
                => lastOp.result[n] = kv[lastOp.keys[n]]

\* C4 witness: get_many(["ab"]) has just returned the Document, metadata
\* included, that was put under "ab".
C4_Witness ==
    /\ lastOp.op = "mget"
    /\ lastOp.keys = <<KeyAB>>
    /\ KeyAB \in Intact
    /\ lastOp.result = <<kv[KeyAB]>>
    /\ "page" \in DOMAIN lastOp.result[1].metadata

\* C5: get_many never raises and answers one result per key, in the order of
\* the keys: the stored Document, or None for a key that is missing, truncated
\* or unreadable; no keys, no results.
C5_GetMany ==
    lastOp.op = "mget" =>
        /\ ~lastOp.raised
        /\ Len(lastOp.result) = Len(lastOp.keys)
        /\ \A n \in DOMAIN lastOp.keys :
            lastOp.result[n] =
                IF lastOp.keys[n] \in Intact /\ lastOp.keys[n] \notin lastOp.unreadable
                THEN kv[lastOp.keys[n]] ELSE None
        /\ (lastOp.keys = <<>> => lastOp.result = <<>>)

\* C5 witness: get_many(["ab", "a"]) where "a" sorts first on disk and its file
\* is truncated: the answer is [the Document of "ab", None].
C5_Witness ==
    /\ lastOp.op = "mget"
    /\ lastOp.keys = <<KeyAB, KeyA>>
    /\ Md5(KeyA) < Md5(KeyAB)
    /\ KeyAB \in Intact
    /\ GetPath(KeyA) \in DOMAIN files
    /\ KeyA \notin Intact
    /\ lastOp.result = <<kv[KeyAB], None>>

\* C10: list_keys(prefix) enumerates exactly the identifiers stored, those that
\* start with the prefix when one is given.
C10_ListKeys ==
    lastOp.op = "yield_keys" =>
        Range(lastOp.result) =
            {k \in Intact : ~lastOp.prefix.given \/ StartsWith(k, lastOp.prefix.value)}

\* the parents of the identifiers ids, in that order
ParentsOf(ids) == [n \in DOMAIN ids |-> assigned[ids[n]]]

\* C1: when the parents of all the hits are in the store, retrieve returns them
\* in the order their identifiers are first met in the ranked hits, each once.
C1_FirstOccurrence ==
    (lastOp.op = "search" /\ Range(lastOp.hits) \subseteq Intact) =>
        /\ lastOp.result = ParentsOf(RankedOnce(lastOp.hits, Range(lastOp.hits)))
        /\ \A a, b \in DOMAIN lastOp.result : a # b => lastOp.result[a] # lastOp.result[b]

\* C1 witness: the hits are children of [P2, P1, P2, P3] and the answer is the
\* three parents [P2, P1, P3].
C1_Witness ==
    /\ lastOp.op = "search"
    /\ Len(lastOp.hits) = 4
    /\ lastOp.hits[3] = lastOp.hits[1]
    /\ Cardinality(Range(lastOp.hits)) = 3
    /\ Range(lastOp.hits) \subseteq Intact
    /\ lastOp.result = <<assigned[lastOp.hits[1]], assigned[lastOp.hits[2]],
                         assigned[lastOp.hits[4]]>>

\* C2: while every add_documents call has completed and nothing was deleted,
\* each child of the index names in its metadata an identifier under which the
\* store holds the very parent the child was cut from.
C2_ParentLinkage ==
    (clean /\ removed = {}) =>
        \A n \in DOMAIN index :
            LET child == index[n]
                got == mget(files, <<child.metadata.doc_id>>, {})
            IN /\ "doc_id" \in DOMAIN child.metadata
               /\ child.metadata.doc_id \in DOMAIN assigned
               /\ got # <<None>>
               /\ got[1] = assigned[child.metadata.doc_id]
               /\ got[1].page_content.of = child.page_content.of
               /\ got[1].page_content.from <= child.page_content.from
               /\ child.page_content.to <= got[1].page_content.to
               /\ \A name \in DOMAIN got[1].metadata :
                    child.metadata[name] = got[1].metadata[name]

\* C2 witness: two faultless calls are behind, and two children of the index
\* name the same parent.
C2_Witness ==
    /\ clean
    /\ removed = {}
    /\ Cardinality({c.pdf : c \in Range(calls)}) = 2
    /\ \E a, b \in DOMAIN index :
        a # b /\ index[a].metadata.doc_id = index[b].metadata.doc_id

\* C3: when parents of some hits were deleted from the store and the parents of
\* the other hits are in it, retrieve does not fail and returns exactly the
\* others, in the order first met; nothing, if there are no others.
C3_DeletedParent ==
    (/\ lastOp.op = "search"
     /\ Range(lastOp.hits) \cap removed # {}
     /\ Range(lastOp.hits) \ removed \subseteq Intact) =>
        /\ ~lastOp.raised
        /\ lastOp.result = ParentsOf(RankedOnce(lastOp.hits, Range(lastOp.hits) \ removed))
        /\ \A id \in removed : \A n \in DOMAIN lastOp.result : lastOp.result[n] # assigned[id]

\* C3 witness: the best hit is a child of a deleted parent, two other parents
\* are hit as well, and the answer is those two.
C3_Witness ==
    /\ lastOp.op = "search"
    /\ Len(lastOp.hits) >= 3
    /\ lastOp.hits[1] \in removed
    /\ Cardinality(Range(lastOp.hits) \ removed) = 2
    /\ Len(lastOp.result) = 2

\* the calls made for pdf after call number n
LaterCalls(pdf, n) == {m \in DOMAIN calls : m > n /\ calls[m].pdf = pdf}

\* C7: an I/O error of a write in mset is not swallowed: the add_documents call
\* it happens in raises, ingest_folder's handler gets it and reports the pdf
\* failed with that error, never indexed, and no further batch of the pdf is tried.
C7_WriteFailurePropagates ==
    \A n \in DOMAIN calls :
        calls[n].fault.store.at # 0 =>
            /\ calls[n].raised
            /\ calls[n].pdf \in DOMAIN report
            /\ report[calls[n].pdf] = <<"Failed to load", "OSError">>
            /\ LaterCalls(calls[n].pdf, n) = {}

\* C7 witness: the second parent of a batch could not be written, the run went
\* on to its end and the pdf stands reported as failed.
C7_Witness ==
    /\ pc = "done"
    /\ \E n \in DOMAIN calls :
        /\ calls[n].fault.store.at = 2
        /\ report[calls[n].pdf][1] = "Failed to load"

IngestStep == Load \/ Batch \/ Indexed \/ Complete

\* the pages ingest_folder has handed to add_documents for pdf
PagesPassed(pdf) ==
    UNION {{calls[n].batch[m].metadata.page : m \in DOMAIN calls[n].batch} :
              n \in {o \in DOMAIN calls : calls[o].pdf = pdf}}

\* C9: a pdf whose load fails is reported failed and the run goes on: it is
\* never stuck, it takes the pdfs one by one, and at the completion step every
\* pdf of the folder has been handled; a pdf is reported failed only for a
\* failure of its own, and every other pdf has had all its pages ingested.
C9_LoadFailureIsolated ==
    /\ pc \in {"load", "batch", "complete"} => ENABLED IngestStep
    /\ pc \in {"load", "batch"} =>
        DOMAIN report = {pdf_files[n] : n \in 1..(cur - 1)}
    /\ pc \in {"complete", "done"} => DOMAIN report = DOMAIN folder
    /\ \A pdf \in DOMAIN report :
        IF report[pdf][1] = "Failed to load"
        THEN \/ report[pdf][2] = "PdfReadError" /\ PagesPassed(pdf) = {}
             \/ \E n \in DOMAIN calls : calls[n].pdf = pdf /\ calls[n].raised
        ELSE /\ report[pdf] = <<"Successfully Indexed">>
             /\ PagesPassed(pdf) = {n - 1 : n \in DOMAIN folder[pdf]}

\* C9 witness: the first pdf of the run failed to load, the second was indexed
\* whole, and the run has reached its completion message.
C9_Witness ==
    /\ pc = "done"
    /\ Len(pdf_files) = 2
    /\ report[pdf_files[1]] = <<"Failed to load", "PdfReadError">>
    /\ report[pdf_files[2]] = <<"Successfully Indexed">>
    /\ PagesPassed(pdf_files[2]) # {}

Ceil(n, d) == (n + d - 1) \div d

CallsFor(pdf) == SelectSeq(calls, LAMBDA c : c.pdf = pdf)

\* pdf was loaded and its batches are over
BatchesOver(pdf) ==
    /\ pdf \in DOMAIN report
    /\ report[pdf] # <<"Failed to load", "PdfReadError">>

\* call number k for pdf got the k-th run of at most BATCH_SIZE pages, in page order
BatchInPlace(pdf, cs, k) ==
    /\ cs[k].from = (k - 1) * BATCH_SIZE
    /\ Len(cs[k].batch) = Min(BATCH_SIZE, Len(folder[pdf]) - cs[k].from)
    /\ Len(cs[k].batch) >= 1
    /\ \A m \in DOMAIN cs[k].batch :
        /\ cs[k].batch[m].metadata.page = cs[k].from + m - 1
        /\ cs[k].batch[m].page_content.of = <<pdf, cs[k].from + m>>

NoSharedIds == \A a, b \in DOMAIN calls : a # b => calls[a].ids \cap calls[b].ids = {}

\* C6 as stated: once the batches of a loaded pdf of n pages are over, there
\* were exactly ceil(n/50) add_documents calls, the k-th with the k-th run of at
\* most 50 pages, and no identifier was assigned in two calls.
C6_AsStated ==
    \A pdf \in DOMAIN folder :
        BatchesOver(pdf) =>
            /\ Len(CallsFor(pdf)) = Ceil(Len(folder[pdf]), BATCH_SIZE)
            /\ \A k \in DOMAIN CallsFor(pdf) : BatchInPlace(pdf, CallsFor(pdf), k)
            /\ NoSharedIds

\* C6 amended: the calls made for a pdf are always the first runs of at most 50
\* pages, in order, without overlap, and no identifier is assigned in two calls;
\* only the last call can have raised; when none raised there are exactly
\* ceil(n/50) calls, and when one raised the pdf is reported failed with the
\* calls ending there.
C6_Batching ==
    /\ NoSharedIds
    /\ \A pdf \in DOMAIN folder :
        LET cs == CallsFor(pdf)
        IN /\ \A k \in DOMAIN cs : BatchInPlace(pdf, cs, k)
           /\ Len(cs) <= Ceil(Len(folder[pdf]), BATCH_SIZE)
           /\ \A k \in DOMAIN cs : cs[k].raised => k = Len(cs)
           /\ (pdf \in DOMAIN report /\ report[pdf] = <<"Successfully Indexed">>) =>
                /\ Len(cs) = Ceil(Len(folder[pdf]), BATCH_SIZE)
                /\ \A k \in DOMAIN cs : ~cs[k].raised
           /\ (BatchesOver(pdf) /\ report[pdf] # <<"Successfully Indexed">>) =>
                /\ cs # <<>>
                /\ cs[Len(cs)].raised

\* C6 witness: a pdf of more than 100 pages went through in three calls, of 50,
\* 50 and the remaining pages.
C6_Witness ==
    /\ pc = "done"
    /\ Len(calls) = 3
    /\ Len(calls[1].batch) = BATCH_SIZE
    /\ Len(calls[2].batch) = BATCH_SIZE
    /\ Len(calls[3].batch) = Len(folder[calls[3].pdf]) - 2 * BATCH_SIZE
    /\ Len(calls[3].batch) < BATCH_SIZE
    /\ report[calls[3].pdf] = <<"Successfully Indexed">>

\* C8: ask lets no exception out when the search ran and found no parent, or
\* when the model call fails.  With nothing retrieved it answers the
\* "no documents" message and the model is not called; when the model call
\* fails it answers the Ollama error message, which is another message.
C8_AskNeverRaises ==
    (lastOp.op \in {"ask", "chat"} /\ ~lastOp.searchRaises) =>
        /\ Range(lastOp.hits) \cap Intact = {} =>
            /\ ~lastOp.out.raised
            /\ lastOp.out.response = NoDocsMessage
            /\ ~lastOp.out.llmCalled
        /\ (Range(lastOp.hits) \cap Intact # {} /\ ~lastOp.llm.ok) =>
            /\ ~lastOp.out.raised
            /\ lastOp.out.llmCalled
            /\ lastOp.out.response = OllamaErrorMessage(lastOp.llm.text[1])
            /\ lastOp.out.response # NoDocsMessage

\* C8 witness: the chat holds one question answered "no documents", its hits
\* being children of deleted parents, and one answered with the Ollama error.
C8_Witness ==
    /\ lastOp.op = "chat"
    /\ Len(messages) = 4
    /\ messages[2].content = NoDocsMessage
    /\ messages[4].content = OllamaErrorMessage("ConnectionError")
    /\ lastOp.out.llmCalled
    /\ ~lastOp.llm.ok
    /\ removed # {}

====
